---------------------------- MODULE Spec2Model ----------------------------
(***************************************************************************)
(* A model of the iRail departure collectors:                              *)
(*   scripts/github_collector.py  ensure_schema, collect_station, main     *)
(*   dags/collector.py            fetch_and_store_liveboard,               *)
(*                                log_collection_summary, the DAG          *)
(* Both write the table departures_raw.  Its columns id (SERIAL) and       *)
(* created_at (DEFAULT NOW()) are assigned by the store and read by no     *)
(* code, so the table is a bag of the remaining columns.  The columns      *)
(* delay_seconds and destination are copied like platform and are left     *)
(* out of the rows.  Strings the code measures or rewrites (vehicle,       *)
(* platform) are sequences of one-character strings.                       *)
(***************************************************************************)
EXTENDS Integers, Sequences, FiniteSets, Bags, TLC

VARIABLES
    api,        \* the environment: what the iRail API serves per station
    db,         \* committed rows of departures_raw (a bag)
    tableExists,\* whether departures_raw has been created
    pc,         \* main: "idle" (not running), "loop", "stats"
    idx,        \* main: position of the for loop in STATIONS
    total,      \* main: the local total
    res,        \* main: what collect_station did per station in this run
    prev,       \* main: res of the run before this one
    runs,       \* main: invocations so far
    ended,      \* main: "never", "running", or how the last invocation ended:
                \* "schema_failed" (ensure_schema raised), "stats_failed"
                \* (the statistics query raised), "done"
    exit,       \* main: the value the last invocation returned
    task,       \* DAG: state and try number of each collect_<station> task
    tx,         \* DAG: the open transaction of a running task
    xcom,       \* DAG: 'departures_count' pushed by each task, <<>> if none
    summary,    \* DAG: state and return value of log_summary
    due,        \* DAG: a schedule instant has passed that has no run yet
    dagRun,     \* DAG: runs created so far
    activeRuns  \* DAG: runs created and not yet finished

vars == <<api, db, tableExists, pc, idx, total, res, prev, runs, ended, exit,
          task, tx, xcom, summary, due, dagRun, activeRuns>>

mainVars == <<pc, idx, total, res, prev, runs, ended, exit>>
schedVars == <<due, dagRun, activeRuns>>
dagVars == <<task, tx, xcom, summary, schedVars>>

---------------------------------------------------------------------------
(* Bounds of the model *)

\* stations of STATIONS that a run visits (a prefix of the list)
NumStations == 2
\* longest departure list of a liveboard response
MaxDeps == 2
\* invocations of main
MaxRuns == 2
\* pieces a vehicle id is put together from, for the train_id derivation
MaxChunks == 3

---------------------------------------------------------------------------
(* Program constants *)

\* ("Liège-Guillemins" is written without its accent)
STATIONS == <<"Brussels-Central", "Antwerp-Central", "Ghent-Sint-Pieters", "Liege-Guillemins">>

\* train_id VARCHAR(50), vehicle VARCHAR(50), platform VARCHAR(10)
TrainIdMax == 50
VehicleMax == 50
PlatformMax == 10

\* default_args['retries']
Retries == 2
\* max_active_runs of the DAG
MaxActiveRuns == 1

CarrierPrefix == <<"B", "E", ".", "N", "M", "B", "S", ".">>

Monitored == { STATIONS[k] : k \in 1..NumStations }

---------------------------------------------------------------------------
(* Pure functions *)

IsPrefixAt(s, old, k) ==
    /\ k + Len(old) - 1 <= Len(s)
    /\ SubSeq(s, k, k + Len(old) - 1) = old

\* Python's s.replace(old, ''): every non-overlapping occurrence of old,
\* found left to right, is removed.
RECURSIVE ReplaceFrom(_, _, _)
ReplaceFrom(s, old, k) ==
    IF k > Len(s) THEN <<>>
    ELSE IF IsPrefixAt(s, old, k) THEN ReplaceFrom(s, old, k + Len(old))
    ELSE <<s[k]>> \o ReplaceFrom(s, old, k + 1)

\* the derivation as specified: a leading carrier prefix is removed, once,
\* and nothing else is touched
StripCarrierPrefixOnce(vehicle) ==
    IF IsPrefixAt(vehicle, CarrierPrefix, 1)
    THEN SubSeq(vehicle, Len(CarrierPrefix) + 1, Len(vehicle))
    ELSE vehicle

\* dep.get('vehicle', '').replace('BE.NMBS.', '')
TrainId(vehicle) == ReplaceFrom(vehicle, CarrierPrefix, 1)

\* int(x) for the strings the model's API serves; any other string raises
\* ValueError
IntOf == ("0" :> 0) @@ ("1" :> 1) @@ ("100" :> 100) @@ ("200" :> 200)
CanInt(x) == x \in DOMAIN IntOf

\* the value of a response whose JSON object has no 'timestamp' key
Missing == "<missing>"

\* data.get('timestamp', 0)
GetTimestamp(data) == IF data.timestamp = Missing THEN "0" ELSE data.timestamp

\* collected_at = datetime.fromtimestamp(int(data.get('timestamp', 0)))
CollectedAt(data) == IntOf[GetTimestamp(data)]

\* station_name = data.get('stationinfo', {}).get('standardname', station)
StationName(station, data) ==
    IF data.standardname = Missing THEN station ELSE data.standardname

\* the arguments of the INSERT cannot be built: int() raises before
\* cursor.execute is called
PyError(dep) == ~CanInt(dep.time) \/ ~CanInt(dep.canceled)

\* the INSERT itself fails in the store: the table is missing, or a value
\* does not fit its column
DbError(dep, exists) ==
    \/ ~exists
    \/ Len(TrainId(dep.vehicle)) > TrainIdMax
    \/ Len(dep.vehicle) > VehicleMax
    \/ Len(dep.platform) > PlatformMax

\* the row the INSERT statement adds
Row(stationName, collectedAt, dep) ==
    [ station        |-> stationName,
      train_id       |-> TrainId(dep.vehicle),
      vehicle        |-> dep.vehicle,
      platform       |-> dep.platform,
      scheduled_time |-> IntOf[dep.time],
      cancelled      |-> (IntOf[dep.canceled] = 1),
      collected_at   |-> collectedAt ]

---------------------------------------------------------------------------
(* The environment: liveboard responses *)

DepA == [ vehicle  |-> CarrierPrefix \o <<"I", "C", "1">>,
          platform |-> <<"3">>, time |-> "100", canceled |-> "0" ]
DepB == [ vehicle  |-> <<"S", "2">>,
          platform |-> <<"4">>, time |-> "200", canceled |-> "1" ]
\* a platform text one character longer than its column: the INSERT raises
\* DataError
DepLong == [ vehicle  |-> CarrierPrefix \o <<"L", "9">>,
            platform |-> [k \in 1..(PlatformMax + 1) |-> "9"],
            time |-> "100", canceled |-> "0" ]

Departures == {DepA, DepB, DepLong}

IsInjective(q) == \A a, b \in 1..Len(q) : q[a] = q[b] => a = b

\* departure lists: a liveboard lists a departure once
Payloads ==
    UNION { { q \in [1..n -> Departures] : IsInjective(q) } : n \in 0..MaxDeps }

\* stationinfo.standardname of the response for a station
StandardName(station) == <<"std", station>>

\* requests.get(...) raised, raise_for_status() raised or the body was not JSON
FetchError(station) ==
    [ fetch |-> "error", departures |-> <<>>, timestamp |-> "0",
      standardname |-> StandardName(station) ]

Responses(station) ==
    { FetchError(station) } \cup
    { [ fetch |-> "ok", departures |-> d, timestamp |-> "100",
        standardname |-> StandardName(station) ] : d \in Payloads }

---------------------------------------------------------------------------
(* scripts/github_collector.py *)

\* what an iteration of the for loop hands to the INSERT
Attempt(stationName, collectedAt, dep) ==
    [ station |-> stationName, collected_at |-> collectedAt, dep |-> dep ]

NoTx == [ pending |-> EmptyBag, inserted |-> 0, attempts |-> <<>> ]

\* a faulty variant: each record is stamped with its own departure time
InsertStepOwnStamp(st, stationName, collectedAt, dep) ==
    LET stamp == IF CanInt(dep.time) THEN IntOf[dep.time] ELSE collectedAt IN
    IF PyError(dep) \/ DbError(dep, tableExists)
    THEN [ st EXCEPT !.pending = EmptyBag,
                     !.attempts = Append(@, Attempt(stationName, stamp, dep)) ]
    ELSE [ pending  |-> st.pending (+) SetToBag({Row(stationName, stamp, dep)}),
           inserted |-> st.inserted + 1,
           attempts |-> Append(st.attempts, Attempt(stationName, stamp, dep)) ]

\* one iteration of the for loop of collect_station: both except clauses
\* roll the connection's transaction back and continue
InsertStep(st, stationName, collectedAt, dep) ==
    IF PyError(dep) \/ DbError(dep, tableExists)
    THEN [ st EXCEPT !.pending = EmptyBag,
                     !.attempts = Append(@, Attempt(stationName, collectedAt, dep)) ]
    ELSE [ pending  |-> st.pending (+) SetToBag({Row(stationName, collectedAt, dep)}),
           inserted |-> st.inserted + 1,
           attempts |-> Append(st.attempts, Attempt(stationName, collectedAt, dep)) ]

RECURSIVE InsertLoop(_, _, _, _, _)
InsertLoop(st, stationName, collectedAt, deps, k) ==
    IF k > Len(deps) THEN st
    ELSE InsertLoop(InsertStep(st, stationName, collectedAt, deps[k]),
                    stationName, collectedAt, deps, k + 1)

\* what a call of collect_station did: the path it took (outcome), the value
\* it returned (count), the rows its commit added (committed), the
\* iterations of its for loop (attempts), whether it opened a store
\* connection (connected) and whether it closed it (closed)
Result(outcome, count, committed, attempts, connected, closed) ==
    [ outcome |-> outcome, count |-> count, committed |-> committed,
      attempts |-> attempts, connected |-> connected, closed |-> closed ]

NotRun == Result("none", 0, EmptyBag, <<>>, FALSE, FALSE)

\* a faulty variant: the connection is opened before the departure list is
\* looked at, and the early return leaves it open
CollectStationConnectsFirst(station) ==
    LET data == api[station] IN
    IF data.fetch = "error" \/ ~CanInt(GetTimestamp(data))
    THEN Result("failed", 0, EmptyBag, <<>>, FALSE, FALSE)
    ELSE IF data.departures = <<>>
    THEN Result("empty", 0, EmptyBag, <<>>, TRUE, FALSE)
    ELSE LET st == InsertLoop(NoTx, StationName(station, data), CollectedAt(data),
                              data.departures, 1)
         IN Result("ok", st.inserted, st.pending, st.attempts, TRUE, TRUE)

\* collect_station(station): what it returns (count), what its commit adds to
\* the table (committed) and the path it took: "failed" is the outer except
\* (logged as an error), "empty" the early return, "ok" the normal return.
\* A response of fetch "error" stands for any exception raised before the
\* for loop: by requests.get, raise_for_status, response.json or
\* get_db_connection.
CollectStation(station) ==
    LET data == api[station] IN
    IF data.fetch = "error" \/ ~CanInt(GetTimestamp(data))
    THEN Result("failed", 0, EmptyBag, <<>>, FALSE, FALSE)
    ELSE IF data.departures = <<>>
    THEN Result("empty", 0, EmptyBag, <<>>, FALSE, FALSE)
    ELSE LET st == InsertLoop(NoTx, StationName(station, data), CollectedAt(data),
                              data.departures, 1)
         IN Result("ok", st.inserted, st.pending, st.attempts, TRUE, TRUE)

\* count = collect_station(station): what main gets to see of a call
Reported(r) == r.count

\* the level of the one message the call logs: logging.warning on the early
\* return, logging.info on the normal return, logging.error in the outer
\* except
LogLevel(r) ==
    CASE r.outcome = "empty"  -> "warning"
      [] r.outcome = "ok"     -> "info"
      [] r.outcome = "failed" -> "error"
      [] OTHER                -> "nothing"

\* a faulty variant: total = count instead of total += count
AddTotalOverwrite(t, count) == count

\* total += count
AddTotal(t, count) == t + count

\* main is invoked: the locals of a fresh call
MainStart ==
    /\ pc = "idle"
    /\ runs < MaxRuns
    /\ runs' = runs + 1
    /\ prev' = res
    /\ res' = [s \in Monitored |-> NotRun]
    /\ idx' = 1
    /\ total' = 0

\* a faulty variant: the exception of ensure_schema is swallowed and the
\* loop runs
EnsureSchemaFailSwallowed ==
    /\ MainStart
    /\ pc' = "loop"
    /\ ended' = "schema_failed"
    /\ UNCHANGED <<api, db, tableExists, exit, dagVars>>

\* a faulty variant: ensure_schema drops the table before creating it
EnsureSchemaRecreates ==
    /\ MainStart
    /\ tableExists' = TRUE
    /\ db' = EmptyBag
    /\ pc' = "loop"
    /\ ended' = "running"
    /\ UNCHANGED <<api, exit, dagVars>>

\* main up to the loop: ensure_schema() returned
EnsureSchemaOk ==
    /\ MainStart
    /\ tableExists' = TRUE
    /\ pc' = "loop"
    /\ ended' = "running"
    /\ UNCHANGED <<api, db, exit, dagVars>>

\* ensure_schema() raised (no connection, or a DDL statement failed before
\* the commit): main's except returns 1
EnsureSchemaFail ==
    /\ MainStart
    /\ pc' = "idle"
    /\ ended' = "schema_failed"
    /\ exit' = 1
    /\ UNCHANGED <<api, db, tableExists, dagVars>>

\* one iteration of main's loop: count = collect_station(station)
CollectStep ==
    /\ pc = "loop"
    /\ LET station == STATIONS[idx]
           r == CollectStation(station)
       IN /\ db' = db (+) r.committed
          /\ res' = [res EXCEPT ![station] = r]
          /\ total' = AddTotal(total, r.count)
    /\ idx' = idx + 1
    /\ pc' = IF idx = NumStations THEN "stats" ELSE "loop"
    /\ UNCHANGED <<api, tableExists, prev, runs, ended, exit, dagVars>>

\* collect_station when conn.commit() raises (the store went away during
\* the batch): the outer except logs and returns 0; conn.close() is not
\* reached and nothing of the batch is stored
CollectStationCommitRaises(station) ==
    LET data == api[station]
        st == InsertLoop(NoTx, StationName(station, data), CollectedAt(data),
                         data.departures, 1)
    IN Result("failed", 0, EmptyBag, st.attempts, TRUE, FALSE)

\* one iteration of main's loop in which the commit of the station raises
CollectStepCommitRaises ==
    /\ pc = "loop"
    /\ LET station == STATIONS[idx]
           data == api[station]
       IN /\ data.fetch = "ok"
          /\ CanInt(GetTimestamp(data))
          /\ data.departures # <<>>
          /\ res' = [res EXCEPT ![station] = CollectStationCommitRaises(station)]
          /\ total' = AddTotal(total, 0)
    /\ idx' = idx + 1
    /\ pc' = IF idx = NumStations THEN "stats" ELSE "loop"
    /\ UNCHANGED <<api, db, tableExists, prev, runs, ended, exit, dagVars>>

\* a faulty variant: the exit code reports per-station failures
StatsOkCountsFailures ==
    /\ pc = "stats"
    /\ pc' = "idle"
    /\ ended' = "done"
    /\ exit' = IF \E s \in Monitored : res[s].outcome = "failed" THEN 1 ELSE 0
    /\ UNCHANGED <<api, db, tableExists, idx, total, res, prev, runs, dagVars>>

\* the statistics query after the loop succeeded: return 0
StatsOk ==
    /\ pc = "stats"
    /\ pc' = "idle"
    /\ ended' = "done"
    /\ exit' = 0
    /\ UNCHANGED <<api, db, tableExists, idx, total, res, prev, runs, dagVars>>

\* get_db_connection, execute or fetchone raised after the loop: main's
\* except returns 1
StatsFail ==
    /\ pc = "stats"
    /\ pc' = "idle"
    /\ ended' = "stats_failed"
    /\ exit' = 1
    /\ UNCHANGED <<api, db, tableExists, idx, total, res, prev, runs, dagVars>>

MainNext ==
    \/ EnsureSchemaOk
    \/ EnsureSchemaFail
    \/ CollectStep
    \/ StatsOk
    \/ StatsFail

---------------------------------------------------------------------------
(* dags/collector.py *)

DagNoTx == [ pending |-> EmptyBag, inserted |-> 0, aborted |-> FALSE,
             attempts |-> <<>> ]

\* one iteration of the for loop of fetch_and_store_liveboard: the except
\* clause continues without a rollback.  An INSERT that fails leaves the
\* transaction aborted, and the store then refuses every later statement of
\* the transaction; an int() that raises touches no transaction.
DagInsertStep(st, stationName, collectedAt, dep) ==
    LET at == [ st EXCEPT
                  !.attempts = Append(@, Attempt(stationName, collectedAt, dep)) ]
    IN IF PyError(dep) \/ st.aborted THEN at
       ELSE IF DbError(dep, tableExists) THEN [ at EXCEPT !.aborted = TRUE ]
       ELSE [ at EXCEPT
                !.pending  = @ (+) SetToBag({Row(stationName, collectedAt, dep)}),
                !.inserted = @ + 1 ]

RECURSIVE DagInsertLoop(_, _, _, _, _)
DagInsertLoop(st, stationName, collectedAt, deps, k) ==
    IF k > Len(deps) THEN st
    ELSE DagInsertLoop(DagInsertStep(st, stationName, collectedAt, deps[k]),
                       stationName, collectedAt, deps, k + 1)

\* conn.commit(): COMMIT of an aborted transaction is a rollback
Committed(st) == IF st.aborted THEN EmptyBag ELSE st.pending

Runnable(s) == task[s].state \in {"none", "up_for_retry"}

\* the callable raised: the scheduler retries the task up to Retries times
Raised(t) ==
    [ state |-> IF t.try + 1 > Retries THEN "failed" ELSE "up_for_retry",
      try   |-> t.try + 1 ]

\* a try of collect_<station> whose fetch (or connection) raises: the except
\* clauses log and re-raise
DagTaskRaise(s) ==
    /\ Runnable(s)
    /\ api[s].fetch = "error" \/ ~CanInt(GetTimestamp(api[s]))
    /\ task' = [task EXCEPT ![s] = Raised(@)]
    /\ UNCHANGED <<api, db, tableExists, mainVars, tx, xcom, summary, schedVars>>

\* a try that finds no departures: return 0 before any push
DagTaskEmpty(s) ==
    /\ Runnable(s)
    /\ api[s].fetch = "ok" /\ CanInt(GetTimestamp(api[s]))
    /\ api[s].departures = <<>>
    /\ task' = [task EXCEPT ![s] = [state |-> "success", try |-> @.try + 1]]
    /\ UNCHANGED <<api, db, tableExists, mainVars, tx, xcom, summary, schedVars>>

\* a try up to the end of its for loop: the inserts are in the task's own
\* open transaction
DagTaskInsert(s) ==
    /\ Runnable(s)
    /\ api[s].fetch = "ok" /\ CanInt(GetTimestamp(api[s]))
    /\ api[s].departures # <<>>
    /\ task' = [task EXCEPT ![s] = [state |-> "running", try |-> @.try + 1]]
    /\ tx' = [tx EXCEPT ![s] =
                DagInsertLoop(DagNoTx, StationName(s, api[s]), CollectedAt(api[s]),
                              api[s].departures, 1)]
    /\ UNCHANGED <<api, db, tableExists, mainVars, xcom, summary, schedVars>>

\* the rest of the try: commit, close, xcom_push, return
DagTaskCommit(s) ==
    /\ task[s].state = "running"
    /\ db' = db (+) Committed(tx[s])
    /\ xcom' = [xcom EXCEPT ![s] = <<tx[s].inserted>>]
    /\ tx' = [tx EXCEPT ![s] = DagNoTx]
    /\ task' = [task EXCEPT ![s].state = "success"]
    /\ UNCHANGED <<api, tableExists, mainVars, summary, schedVars>>

\* a try in which xcom_push raises (the metadata database is unreachable):
\* the commit and the close are done, the except clause logs and re-raises,
\* and the scheduler counts the try as failed
DagTaskPushRaises(s) ==
    /\ task[s].state = "running"
    /\ db' = db (+) Committed(tx[s])
    /\ tx' = [tx EXCEPT ![s] = DagNoTx]
    /\ task' = [task EXCEPT ![s].state =
                  IF task[s].try > Retries THEN "failed" ELSE "up_for_retry"]
    /\ UNCHANGED <<api, tableExists, mainVars, xcom, summary, schedVars>>

\* the characters of the station names
Chars ==
       ("Brussels-Central" :>
         <<"B", "r", "u", "s", "s", "e", "l", "s", "-", "C", "e", "n", "t", "r", "a", "l">>)
    @@ ("Antwerp-Central" :>
         <<"A", "n", "t", "w", "e", "r", "p", "-", "C", "e", "n", "t", "r", "a", "l">>)
    @@ ("Ghent-Sint-Pieters" :>
         <<"G", "h", "e", "n", "t", "-", "S", "i", "n", "t", "-", "P", "i", "e", "t", "e", "r", "s">>)
    @@ ("Liege-Guillemins" :>
         <<"L", "i", "e", "g", "e", "-", "G", "u", "i", "l", "l", "e", "m", "i", "n", "s">>)

\* str.lower() on the letters that occur in upper case in the names
LowerOf == ("A" :> "a") @@ ("B" :> "b") @@ ("C" :> "c") @@ ("G" :> "g") @@ ("L" :> "l") @@ ("P" :> "p") @@ ("S" :> "s")
Lower(q) == [k \in 1..Len(q) |-> IF q[k] \in DOMAIN LowerOf THEN LowerOf[q[k]] ELSE q[k]]

\* str.replace("-", "_")
Underscored(q) == [k \in 1..Len(q) |-> IF q[k] = "-" THEN "_" ELSE q[k]]

CollectPrefix == <<"c", "o", "l", "l", "e", "c", "t", "_">>

\* task_id=f'collect_{station.replace("-", "_").lower()}' of the task created
\* for a station
CreatedTaskId(s) == CollectPrefix \o Lower(Underscored(Chars[s]))

\* a faulty variant: the summary builds the id without lower()
PulledTaskIdNoLower(s) == CollectPrefix \o Underscored(Chars[s])

\* task_id = f'collect_{station.replace("-", "_").lower()}' in
\* log_collection_summary
PulledTaskId(s) == CollectPrefix \o Lower(Underscored(Chars[s]))

\* ti.xcom_pull(task_ids=task_id, key='departures_count') or 0: the value
\* pushed in this run by the task of that id, None when there is no such
\* task or it pushed nothing
PullOrZero(s) ==
    LET owners == { t \in Monitored : CreatedTaskId(t) = PulledTaskId(s) } IN
    IF owners = {} THEN 0
    ELSE LET t == CHOOSE t \in owners : TRUE
         IN IF xcom[t] = <<>> THEN 0 ELSE xcom[t][1]

\* the for loop of log_collection_summary over the stations
RECURSIVE SummaryTotal(_)
SummaryTotal(k) ==
    IF k = 0 THEN 0 ELSE AddTotal(SummaryTotal(k - 1), PullOrZero(STATIONS[k]))

\* log_summary has the default trigger rule all_success: it runs once every
\* collect_<station> task has succeeded
SummaryRun ==
    /\ summary.state = "none"
    /\ \A s \in Monitored : task[s].state = "success"
    /\ summary' = [state |-> "success", total |-> SummaryTotal(NumStations)]
    /\ UNCHANGED <<api, db, tableExists, mainVars, task, tx, xcom, schedVars>>

\* ... and is set to upstream_failed, without running, once one of them has
\* failed
SummaryUpstreamFailed ==
    /\ summary.state = "none"
    /\ \E s \in Monitored : task[s].state = "failed"
    /\ summary' = [summary EXCEPT !.state = "upstream_failed"]
    /\ UNCHANGED <<api, db, tableExists, mainVars, task, tx, xcom, schedVars>>

\* a faulty variant: max_active_runs left at the scheduler's default of 16
CanStartRunDefault == activeRuns < 16

\* max_active_runs=1: the scheduler creates a run only while fewer than
\* MaxActiveRuns runs of the DAG are unfinished
CanStartRun == activeRuns < MaxActiveRuns

\* schedule_interval '*/5 * * * *': the next five-minute instant passes,
\* whatever the current run is doing.  With catchup=False only the latest
\* instant is kept for scheduling.
Tick ==
    /\ ~due
    /\ due' = TRUE
    /\ UNCHANGED <<api, db, tableExists, mainVars, task, tx, xcom, summary,
                   dagRun, activeRuns>>

\* the scheduler creates the run of the instant that is due: fresh task
\* instances, fresh XComs
DagRunStart ==
    /\ due
    /\ CanStartRun
    /\ dagRun < MaxRuns
    /\ due' = FALSE
    /\ dagRun' = dagRun + 1
    /\ activeRuns' = activeRuns + 1
    /\ task' = [s \in Monitored |-> [state |-> "none", try |-> 0]]
    /\ tx' = [s \in Monitored |-> DagNoTx]
    /\ xcom' = [s \in Monitored |-> <<>>]
    /\ summary' = [state |-> "none", total |-> 0]
    /\ UNCHANGED <<api, db, tableExists, mainVars>>

\* no task instance of the current run is unfinished
NoUnfinishedTasks ==
    /\ \A s \in Monitored : task[s].state \in {"success", "failed"}
    /\ summary.state # "none"

\* the scheduler marks a run finished once none of its task instances is
\* unfinished
DagRunEnd ==
    /\ activeRuns > 0
    /\ NoUnfinishedTasks
    /\ activeRuns' = activeRuns - 1
    /\ UNCHANGED <<api, db, tableExists, mainVars, task, tx, xcom, summary,
                   due, dagRun>>

DagNext ==
    \/ \E s \in Monitored : DagTaskRaise(s)
    \/ \E s \in Monitored : DagTaskEmpty(s)
    \/ \E s \in Monitored : DagTaskInsert(s)
    \/ \E s \in Monitored : DagTaskCommit(s)
    \/ SummaryRun
    \/ SummaryUpstreamFailed

DagIdle ==
    /\ task = [s \in Monitored |-> [state |-> "none", try |-> 0]]
    /\ tx = [s \in Monitored |-> DagNoTx]
    /\ xcom = [s \in Monitored |-> <<>>]
    /\ summary = [state |-> "none", total |-> 0]
    /\ due = FALSE
    /\ dagRun = 1
    /\ activeRuns = 1

MainIdle ==
    /\ pc = "idle"
    /\ idx = 1
    /\ total = 0
    /\ res = [s \in Monitored |-> NotRun]
    /\ prev = [s \in Monitored |-> NotRun]
    /\ runs = 0
    /\ ended = "never"
    /\ exit = 0

\* every station is served one of its possible responses
ApiServes == api \in { f \in [Monitored -> UNION { Responses(s) : s \in Monitored }] :
                         \A s \in Monitored : f[s] \in Responses(s) }

Init ==
    /\ ApiServes
    /\ db = EmptyBag
    /\ tableExists = FALSE
    /\ MainIdle
    /\ DagIdle

Next == MainNext

Spec == Init /\ [][Next]_vars

\* the DAG's runs find the table in place
InitDag ==
    /\ ApiServes
    /\ db = EmptyBag
    /\ tableExists = TRUE
    /\ MainIdle
    /\ DagIdle

\* the script with a store that can go away before a commit
FaultsNext ==
    \/ MainNext
    \/ CollectStepCommitRaises

SpecFaults == Init /\ [][FaultsNext]_vars

SpecDag == InitDag /\ [][DagNext]_vars

\* one run of the DAG with a metadata database that can be unreachable at a
\* push
DagFaultsNext ==
    \/ DagNext
    \/ \E s \in Monitored : DagTaskPushRaises(s)

SpecDagFaults == InitDag /\ [][DagFaultsNext]_vars

\* the DAG under its schedule: run after run
DagRunsNext ==
    \/ DagNext
    \/ Tick
    \/ DagRunStart
    \/ DagRunEnd

\* the schedule does not look at the departures: per station a failed
\* fetch, an empty list, a list that is stored, one that the store refuses
\* and one of two departures
ScheduleResponses(station) ==
    { FetchError(station) } \cup
    { [ fetch |-> "ok", departures |-> d, timestamp |-> "100",
        standardname |-> StandardName(station) ] :
        d \in { <<>>, <<DepA>>, <<DepLong>>, <<DepA, DepB>> } }

InitDagRuns ==
    /\ api \in { f \in [Monitored -> UNION { ScheduleResponses(s) : s \in Monitored }] :
                   \A s \in Monitored : f[s] \in ScheduleResponses(s) }
    /\ db = EmptyBag
    /\ tableExists = TRUE
    /\ MainIdle
    /\ DagIdle

SpecDagRuns == InitDagRuns /\ [][DagRunsNext]_vars

---------------------------------------------------------------------------
(* The train_id derivation on vehicle ids put together from pieces *)

Chunks == { CarrierPrefix, <<"B", "E", ".">>, <<"X">> }

RECURSIVE Concat(_, _)
Concat(q, k) == IF k = 0 THEN <<>> ELSE Concat(q, k - 1) \o q[k]

VehicleInputs ==
    UNION { { Concat(q, n) : q \in [1..n -> Chunks] } : n \in 0..MaxChunks }

\* every station serves one departure of the same vehicle id
InitTrain ==
    /\ \E v \in VehicleInputs :
         api = [s \in Monitored |->
                  [ fetch |-> "ok", departures |-> << [DepA EXCEPT !.vehicle = v] >>,
                    timestamp |-> "100", standardname |-> StandardName(s) ]]
    /\ db = EmptyBag
    /\ tableExists = FALSE
    /\ MainIdle
    /\ DagIdle

SpecTrain == InitTrain /\ [][Next]_vars

---------------------------------------------------------------------------
(* The stamping of the records of a response *)

\* a departure whose 'time' is not a number: int() raises
DepBadTime == [ vehicle  |-> <<"P", "7">>,
                platform |-> <<"1">>, time |-> "soon", canceled |-> "0" ]

\* the response's 'timestamp': absent, or epoch seconds as a string
Timestamps == {Missing, "200"}

\* non-empty departure lists of a departure that is stored, one that the
\* store refuses and one that cannot be converted
StampPayloads ==
    UNION { { q \in [1..n -> {DepA, DepLong, DepBadTime}] : IsInjective(q) } :
            n \in 1..MaxDeps }

\* every station is served the same departures under the same timestamp,
\* with or without a stationinfo.standardname
InitStamp ==
    /\ \E ts \in Timestamps, d \in StampPayloads, named \in BOOLEAN :
         api = [s \in Monitored |->
                  [ fetch |-> "ok", departures |-> d, timestamp |-> ts,
                    standardname |-> IF named THEN StandardName(s) ELSE Missing ]]
    /\ db = EmptyBag
    /\ tableExists = FALSE
    /\ MainIdle
    /\ DagIdle

\* both collectors write to the same table; every fetch succeeds with
\* departures, so no try of a task raises or returns early
StampNext ==
    \/ MainNext
    \/ \E s \in Monitored : DagTaskInsert(s)
    \/ \E s \in Monitored : DagTaskCommit(s)
    \/ SummaryRun

SpecStamp == InitStamp /\ [][StampNext]_vars

---------------------------------------------------------------------------
(* Properties *)

Stored(row) == CopiesIn(row, db)

\* the row the collectors build for departure k of the response of s
RowOf(s, k) ==
    Row(StationName(s, api[s]), CollectedAt(api[s]), api[s].departures[k])

\* the INSERT of a departure raises, whatever came before it in the batch
Raises(dep) == PyError(dep) \/ DbError(dep, TRUE)

Clean(s) ==
    /\ api[s].fetch = "ok"
    /\ api[s].departures # <<>>
    /\ \A k \in 1..Len(api[s].departures) : ~Raises(api[s].departures[k])

AllAttempted == \A s \in Monitored : res[s].outcome # "none"

RunOver == pc = "idle" /\ runs > 0

\* C1: a station whose clean payload was persisted by the run before, and
\* which is collected again on the same payload, reports 0 inserted and its
\* rows are stored exactly once.
C1_SecondPersistIsNoOp ==
    \A s \in Monitored :
      ( /\ Clean(s)
        /\ prev[s].outcome = "ok"
        /\ BagCardinality(prev[s].committed) = Len(api[s].departures)
        /\ res[s].outcome = "ok" )
      => /\ res[s].count = 0
         /\ \A k \in 1..Len(api[s].departures) : Stored(RowOf(s, k)) = 1

\* the counts of the stations whose fetch did not fail, summed in STATIONS
\* order
RECURSIVE SumFetched(_)
SumFetched(k) ==
    IF k = 0 THEN 0
    ELSE SumFetched(k - 1) +
         (IF api[STATIONS[k]].fetch = "ok" THEN res[STATIONS[k]].count ELSE 0)

\* C2: when main's loop is over, every station has been attempted whatever
\* set of stations failed to fetch; a station whose fetch failed counts 0 and
\* commits nothing; a station whose fetch succeeded took a non-failure path
\* and what it committed is in the table; and main's total is the sum of the
\* counts of the stations whose fetch succeeded.
C2_FailureIsolation ==
    pc = "stats" =>
      /\ AllAttempted
      /\ \A s \in Monitored :
           api[s].fetch = "error" =>
             /\ res[s].outcome = "failed"
             /\ res[s].count = 0
             /\ res[s].committed = EmptyBag
      /\ \A s \in Monitored :
           api[s].fetch = "ok" =>
             /\ res[s].outcome \in {"ok", "empty"}
             /\ res[s].committed \sqsubseteq db
             /\ Clean(s) => \A k \in 1..Len(api[s].departures) : Stored(RowOf(s, k)) >= 1
      /\ total = SumFetched(NumStations)

\* the first station serves two departures, one of them cancelled, the
\* second station's fetch fails, and the total is 2
C2_Witness ==
    /\ pc = "stats"
    /\ api[STATIONS[1]].departures = <<DepA, DepB>>
    /\ api[STATIONS[2]].fetch = "error"
    /\ res[STATIONS[1]].count = 2
    /\ Stored(RowOf(STATIONS[1], 2)) >= 1
    /\ RowOf(STATIONS[1], 2).cancelled
    /\ total = 2

\* C3: once a station's batch has committed, every record of the batch whose
\* insert does not itself raise is a stored row, wherever a raising record
\* stands in the list.
C3_SiblingsSurvive ==
    \A s \in Monitored :
      res[s].outcome = "ok" =>
        \A k \in 1..Len(api[s].departures) :
          ~Raises(api[s].departures[k]) => Stored(RowOf(s, k)) >= 1

\* C4: the count collect_station returns is the number of rows its batch
\* added to the table at commit.
C4_CountIsExact ==
    \A s \in Monitored :
      res[s].outcome = "ok" => res[s].count = BagCardinality(res[s].committed)

\* C5 as claimed: every finished run in which every station was attempted
\* returned 0.
C5_ZeroWheneverAllAttempted == (RunOver /\ AllAttempted) => exit = 0

\* C5 amended: a finished run in which every station was attempted returned
\* 0 if the statistics query raised nothing, whatever stations failed, and 1
\* if that query raised; and a run returns non-zero only when the schema
\* bootstrap or the statistics query raised.
C5_ExitContract ==
    RunOver =>
      /\ (AllAttempted /\ ended # "stats_failed") => exit = 0
      /\ (AllAttempted /\ ended = "stats_failed") => exit = 1
      /\ ended = "done" => (AllAttempted /\ exit = 0)
      /\ exit # 0 => ended \in {"schema_failed", "stats_failed"}

\* a run in which a station failed and which returned 0
C5_Witness ==
    /\ RunOver
    /\ ended = "done"
    /\ \E s \in Monitored : res[s].outcome = "failed"
    /\ \E s \in Monitored : res[s].outcome = "ok"
    /\ exit = 0

\* C6: when ensure_schema raises, main returns non-zero, no station is
\* attempted in that run, and no step of that run changes the table.
C6_SchemaFailureIsFatal ==
    /\ [](ended = "schema_failed" =>
            /\ pc = "idle"
            /\ exit # 0
            /\ \A s \in Monitored : res[s].outcome = "none")
    /\ [][ended' = "schema_failed" => db' = db]_vars

\* a second run whose schema bootstrap failed, after a first run stored rows
C6_Witness ==
    /\ ended = "schema_failed"
    /\ runs = MaxRuns
    /\ db # EmptyBag
    /\ exit = 1

\* C8: a station whose batch holds a record that the store rejects (a value
\* that does not fit its column) is reported as a failure with 0 inserted
\* and commits nothing.
C8_StorageErrorIsStationFatal ==
    \A s \in Monitored :
      ( /\ res[s].outcome # "none"
        /\ \E k \in 1..Len(api[s].departures) : DbError(api[s].departures[k], TRUE) )
      => /\ res[s].outcome = "failed"
         /\ res[s].count = 0
         /\ res[s].committed = EmptyBag

\* C9: every stored row's train_id is its vehicle with a leading "BE.NMBS."
\* removed once, and is its vehicle unchanged when the vehicle does not
\* start with "BE.NMBS.".
C9_TrainIdDerivation ==
    \A r \in BagToSet(db) : r.train_id = StripCarrierPrefixOnce(r.vehicle)

DagTasksOver == \A s \in Monitored : task[s].state \in {"success", "failed"}

\* C7: once the collect_<station> tasks of a run have all finished, in
\* success or in failure, the summary task is not left unexecuted.
C7_SummaryAlwaysProduced ==
    DagTasksOver => summary.state # "upstream_failed"

\* what main's loop over the same responses, from the same empty table,
\* returns and commits
RECURSIVE SequentialTotal(_)
SequentialTotal(k) ==
    IF k = 0 THEN 0 ELSE SequentialTotal(k - 1) + CollectStation(STATIONS[k]).count

RECURSIVE SequentialRows(_)
SequentialRows(k) ==
    IF k = 0 THEN EmptyBag
    ELSE SequentialRows(k - 1) (+) CollectStation(STATIONS[k]).committed

\* C10: when a DAG run is over, whatever the interleaving of its tasks, the
\* per-station counts, the total and the stored rows are those of main's
\* sequential loop on the same responses.
C10_SameAsSequential ==
    (DagTasksOver /\ summary.state # "none") =>
      /\ \A s \in Monitored : PullOrZero(s) = CollectStation(s).count
      /\ summary.state = "success"
      /\ summary.total = SequentialTotal(NumStations)
      /\ db = SequentialRows(NumStations)

ServesEmpty(s) ==
    /\ api[s].fetch = "ok"
    /\ CanInt(GetTimestamp(api[s]))
    /\ api[s].departures = <<>>

\* C11 as claimed: a station that serves an empty departure list returns 0,
\* opens no connection and inserts nothing, the run goes on and does not
\* fail for it, and what the call reports to main differs from what the
\* call of a station whose fetch failed reports.
C11_EmptyDistinctInReport ==
    \A s \in Monitored :
      (ServesEmpty(s) /\ res[s].outcome # "none") =>
        /\ res[s].count = 0
        /\ ~res[s].connected
        /\ res[s].committed = EmptyBag
        /\ \A t \in Monitored :
             res[t].outcome = "failed" => Reported(res[t]) # Reported(res[s])

\* C11 amended: a station that serves an empty departure list takes the
\* early return: 0, no connection, no insert attempt, no row, a warning in
\* the log; the loop goes on to the statistics query and the run returns 0
\* unless that query raises.  A station whose fetch failed logs an error
\* instead, and that is the only difference: both calls report 0 to main.
C11_EmptyIsSuccess ==
    \A s \in Monitored :
      (ServesEmpty(s) /\ res[s].outcome # "none") =>
        /\ res[s].outcome = "empty"
        /\ res[s].count = 0
        /\ ~res[s].connected
        /\ res[s].attempts = <<>>
        /\ res[s].committed = EmptyBag
        /\ LogLevel(res[s]) = "warning"
        /\ pc \in {"loop", "stats", "idle"}
        /\ (pc = "idle" /\ ended # "stats_failed") => (ended = "done" /\ exit = 0)
        /\ \A t \in Monitored :
             res[t].outcome = "failed" =>
               /\ LogLevel(res[t]) = "error"
               /\ Reported(res[t]) = Reported(res[s])

\* a finished run that returned 0 in which one station served an empty list
\* and the fetch of another failed
C11_Witness ==
    /\ RunOver
    /\ exit = 0
    /\ \E s, t \in Monitored :
         /\ ServesEmpty(s) /\ res[s].outcome = "empty"
         /\ api[t].fetch = "error" /\ res[t].outcome = "failed"

\* C12: runs of the DAG never overlap: at most one run is unfinished at any
\* time, and a run is created only when every task of the run before it,
\* log_summary included, has reached a final state, however many schedule
\* instants passed in the meantime.
C12_RunsNeverOverlap ==
    /\ [](activeRuns <= 1)
    /\ [][dagRun' # dagRun =>
            /\ DagTasksOver
            /\ summary.state # "none"
            /\ activeRuns = 0]_vars

\* the second run is still collecting when the next schedule instant has
\* already passed
C12_Witness ==
    /\ dagRun = 2
    /\ activeRuns = 1
    /\ due
    /\ \E s \in Monitored : task[s].state = "running"

\* C13: collection only adds: no step of any run of main removes or changes
\* a row that an earlier step committed.
C13_NeverDestructive == [][db \sqsubseteq db']_vars

\* a second run is over, the first had committed rows, the second rolled
\* back a batch, and the rows of the first are all still stored
C13_Witness ==
    /\ RunOver
    /\ runs = 2
    /\ \E s \in Monitored : prev[s].committed # EmptyBag
    /\ \E s \in Monitored :
         res[s].outcome = "ok" /\ Len(res[s].attempts) > res[s].count
    /\ \A s \in Monitored : prev[s].committed \sqsubseteq db

\* the epoch second the response's timestamp stands for, 0 when it has none
ResponseTime(s) ==
    IF api[s].timestamp = Missing THEN 0 ELSE IntOf[api[s].timestamp]

\* the name the response gives the station, the requested name when it
\* gives none
ResolvedName(s) ==
    IF api[s].standardname = Missing THEN s ELSE api[s].standardname

\* C14: for a response with a non-empty departure list of length n the
\* collector makes exactly n insert attempts, the k-th for the k-th raw
\* departure, and every attempt (and every row stored from it) carries the
\* collected_at of the response's timestamp, 0 when the response has none,
\* and the resolved station name.
C14_OneAttemptPerDeparture ==
    \A s \in Monitored :
      (api[s].fetch = "ok" /\ api[s].departures # <<>>) =>
        /\ res[s].outcome # "none" =>
             /\ Len(res[s].attempts) = Len(api[s].departures)
             /\ \A k \in 1..Len(res[s].attempts) :
                  /\ res[s].attempts[k].dep = api[s].departures[k]
                  /\ res[s].attempts[k].collected_at = ResponseTime(s)
                  /\ res[s].attempts[k].station = ResolvedName(s)
             /\ \A row \in BagToSet(res[s].committed) :
                  /\ row.collected_at = ResponseTime(s)
                  /\ row.station = ResolvedName(s)
        /\ task[s].state = "running" =>
             /\ Len(tx[s].attempts) = Len(api[s].departures)
             /\ \A k \in 1..Len(tx[s].attempts) :
                  /\ tx[s].attempts[k].dep = api[s].departures[k]
                  /\ tx[s].attempts[k].collected_at = ResponseTime(s)
                  /\ tx[s].attempts[k].station = ResolvedName(s)
             /\ \A row \in BagToSet(tx[s].pending) :
                  /\ row.collected_at = ResponseTime(s)
                  /\ row.station = ResolvedName(s)

\* a response without a timestamp and without a standardname, two
\* departures whose own times differ from each other, both attempted by
\* the script, whose rows are committed, and by the DAG's task, whose
\* transaction is still open
C14_Witness ==
    \E s \in Monitored :
      /\ api[s].timestamp = Missing
      /\ api[s].standardname = Missing
      /\ Len(api[s].departures) = 2
      /\ api[s].departures[1].time # api[s].departures[2].time
      /\ Len(res[s].attempts) = 2
      /\ res[s].committed # EmptyBag
      /\ task[s].state = "running"
      /\ Len(tx[s].attempts) = 2

\* C15: a connection that a call of collect_station has opened is closed
\* when the call is over, on every path of the call, the one on which the
\* final commit raises included.
C15_ConnectionsReleased ==
    \A s \in Monitored :
      /\ res[s].connected => res[s].closed
      /\ prev[s].connected => prev[s].closed

\* what the collect tasks of the current run pushed, added up over the first
\* k stations
RECURSIVE PushedSum(_)
PushedSum(k) ==
    IF k = 0 THEN 0
    ELSE PushedSum(k - 1) +
         (IF xcom[STATIONS[k]] = <<>> THEN 0 ELSE xcom[STATIONS[k]][1])

\* C16: the value log_collection_summary returned is the sum of the
\* 'departures_count' values that the collect tasks of the same run pushed,
\* a station without a pushed value counting 0, and for every station the
\* task id it pulls from is the id the station's task was created under.
C16_SummaryIsSumOfPushed ==
    /\ \A s \in Monitored : PulledTaskId(s) = CreatedTaskId(s)
    /\ summary.state = "success" => summary.total = PushedSum(NumStations)

\* the summary of a second run returned a non-zero sum although one station
\* pushed nothing, and the first run had stored rows of its own
C16_Witness ==
    /\ dagRun = 2
    /\ summary.state = "success"
    /\ summary.total > 0
    /\ \E s \in Monitored : xcom[s] = <<>> /\ task[s].state = "success"
    /\ BagCardinality(db) > summary.total

\* the rows one try of the station's task commits when nothing after the
\* commit fails
SingleAttemptRows(s) ==
    Committed(DagInsertLoop(DagNoTx, StationName(s, api[s]), CollectedAt(api[s]),
                            api[s].departures, 1))

\* C17: once a station's collect task has succeeded, after however many
\* tries, the table holds for each of the station's departures as many rows
\* as a single successful try stores: a try that failed after its commit
\* and was retried has left no second row.
C17_RetriesDoNotDuplicate ==
    \A s \in Monitored :
      (task[s].state = "success" /\ api[s].departures # <<>>) =>
        \A k \in 1..Len(api[s].departures) :
          Stored(RowOf(s, k)) = CopiesIn(RowOf(s, k), SingleAttemptRows(s))

===========================================================================
